---- MODULE Spec2Model ----
(***************************************************************************)
(* UT-Scholar-Crawler: the aggregation of the per-teacher network files    *)
(* (Aggregator.py) followed by the graph embedding engine (Embedding.py).  *)
(*                                                                         *)
(* One behaviour is one run of Aggregator.py followed by one run of        *)
(* Embedding.py on the files the aggregator wrote.  The two scripts are    *)
(* separate processes: only Outputs/Aggregated_Nodes.json and              *)
(* Outputs/Aggregated_Edges.json carry state from the first to the second. *)
(*                                                                         *)
(* Real numbers are fixed-point integers in units of 1/SCALE; a numpy      *)
(* array is a record [nan, c] where c is the tuple of its components and   *)
(* nan says that every component is NaN (the only way a NaN arises in this *)
(* program is 0/0 on a whole vector, and NaN then spreads to whole         *)
(* vectors).  Arrays live on a heap and the dictionaries hold addresses,   *)
(* so that the in-place += of line 30/31 and copy.deepcopy keep their      *)
(* aliasing behaviour.                                                     *)
(***************************************************************************)
EXTENDS Integers, Sequences, FiniteSets, TLC

(***************************************************************************)
(* Bounds of the model.                                                    *)
(***************************************************************************)
\* Node ids that occur in the raw teacher network files.
NodeIdSet == {1, 2, 3}
\* Number of teacher files the aggregator loops over.
MaxTeachers == 2
\* Total number of raw edges in all teacher network files.
MaxRawEdges == 2
\* Fixed-point unit: the real number 1.0.
SCALE == 1000
\* Tools.py:60 sets 32; the model runs in a smaller dimension.
EMBEDDING_SIZE == 2
\* Tools.py:61 sets 100; the model runs fewer iterations.
ITERATION_COUNT == 3
\* Tools.py:62: EPSILON = 0.01.
EPSILON == SCALE \div 100

Dims == 1..EMBEDDING_SIZE

(***************************************************************************)
(* Fixed-point arithmetic on vectors.                                      *)
(***************************************************************************)
\* Division of reals, truncated to the fixed-point grid (b > 0).
Quot(a, b) == IF a >= 0 THEN a \div b ELSE -((-a) \div b)

Abs(a) == IF a >= 0 THEN a ELSE -a

RECURSIVE SqrtSearch(_, _, _)
SqrtSearch(n, lo, hi) ==
    IF lo >= hi THEN lo
    ELSE LET mid == (lo + hi + 1) \div 2
         IN  IF mid * mid <= n THEN SqrtSearch(n, mid, hi)
                               ELSE SqrtSearch(n, lo, mid - 1)

\* Floor of the square root.
ISqrt(n) == SqrtSearch(n, 0, 46340)

RECURSIVE SumSeq(_)
SumSeq(s) == IF s = <<>> THEN 0 ELSE Head(s) + SumSeq(Tail(s))

\* np.zeros(shape=(EMBEDDING_SIZE,))
Zeros == [nan |-> FALSE, c |-> [i \in Dims |-> 0]]

\* An array whose components are all NaN.
NaNVec == [nan |-> TRUE, c |-> [i \in Dims |-> 0]]

\* np.linalg.norm(x=v, ord=2), for an array that holds no NaN.
Norm(v) == ISqrt(SumSeq([i \in Dims |-> v.c[i] * v.c[i]]))

\* a + b on arrays.
VAdd(a, b) ==
    IF a.nan \/ b.nan THEN NaNVec
    ELSE [nan |-> FALSE, c |-> [i \in Dims |-> a.c[i] + b.c[i]]]

\* Line 18: Embedding / np.linalg.norm(Embedding); 0/0 is NaN in numpy.
InitNormalize(v) ==
    IF Norm(v) = 0 THEN NaNVec
    ELSE [nan |-> FALSE, c |-> [i \in Dims |-> Quot(v.c[i] * SCALE, Norm(v))]]

\* Line 32 with the epsilon left out of the divisor.
NormalizeNoEpsilon(v) ==
    IF v.nan \/ Norm(v) = 0 THEN NaNVec
    ELSE [nan |-> FALSE, c |-> [i \in Dims |-> Quot(v.c[i] * SCALE, Norm(v))]]

\* Line 32 as a guarded division by the norm alone: zero stays zero.
NormalizeGuardedZero(v) ==
    IF v.nan THEN NaNVec
    ELSE IF Norm(v) = 0 THEN Zeros
    ELSE [nan |-> FALSE, c |-> [i \in Dims |-> Quot(v.c[i] * SCALE, Norm(v))]]

\* Line 32: v / (np.linalg.norm(v) + EPSILON).
Normalize(v) ==
    IF v.nan THEN NaNVec
    ELSE [nan |-> FALSE,
          c |-> [i \in Dims |-> Quot(v.c[i] * SCALE, Norm(v) + EPSILON)]]

\* Line 36: np.mean(np.abs(np.subtract(v, v_new))); a scalar [nan, x].
MeanAbsDiff(v, w) ==
    IF v.nan \/ w.nan THEN [nan |-> TRUE, x |-> 0]
    ELSE [nan |-> FALSE,
          x |-> Quot(SumSeq([i \in Dims |-> Abs(v.c[i] - w.c[i])]), EMBEDDING_SIZE)]

\* Line 37: np.mean(a=Loss) of a list of scalars; the mean of nothing is NaN.
MeanOf(xs) ==
    IF xs = <<>> \/ \E i \in 1..Len(xs) : xs[i].nan THEN [nan |-> TRUE, x |-> 0]
    ELSE [nan |-> FALSE, x |-> Quot(SumSeq([i \in 1..Len(xs) |-> xs[i].x]), Len(xs))]

(***************************************************************************)
(* Line 17: the vectors np.random.uniform(-1, +1) can return.  The model   *)
(* draws from three of them: the origin, a vector on an axis and a vector  *)
(* off the axes.                                                           *)
(***************************************************************************)
Samples ==
    { Zeros,
      [nan |-> FALSE, c |-> [i \in Dims |-> IF i = 1 THEN -SCALE ELSE 0]],
      [nan |-> FALSE, c |-> [i \in Dims |-> IF i = 1 THEN (3 * SCALE) \div 5
                                                     ELSE -((4 * SCALE) \div 5)]] }

(***************************************************************************)
(* JSON: json.dump writes the int keys of a dict as strings, and the       *)
(* engine reads them back with int().                                      *)
(***************************************************************************)
Digits == <<"1", "2", "3", "4", "5", "6", "7", "8", "9">>

\* The JSON key of an int dictionary key.
Str(n) == Digits[n]

\* int(key)
ToInt(s) == CHOOSE n \in 1..Len(Digits) : Digits[n] = s

\* A dict with no entries.
EmptyDict == [n \in {} |-> 0]


VARIABLES
    pc,                        \* the statement the running script is at
    err,                       \* the uncaught exception that ended the run
    \* Aggregator.py
    teachersLeft,              \* teacher ids Aggregator.py line 11 still loops over
    rawEdges,                  \* the raw edges <<from, to>> read so far, in order
    Aggregated_Nodes,          \* keys of the dict, in insertion order
    Aggregated_Edges,          \* the dict as items [key, nbrs], in insertion order
    \* Outputs/
    fileNodes,                 \* Aggregated_Nodes.json: the keys, as strings
    fileEdges,                 \* Aggregated_Edges.json: items [key (string), nbrs]
    fileEmbeddings,            \* Node_Embeddings.json: [written, keys, data]
    \* Embedding.py
    Node_IDs,
    Edges,
    heap,                      \* the numpy arrays, by address
    Node_ID_2_Embedding,       \* node id -> address
    Node_ID_2_Embedding_Temp,  \* node id -> address
    Node_ID_2_Embedding_New,   \* node id -> address
    Losses,
    Iteration,
    edgePos                    \* pairs of the loop of lines 27-31 done in this iteration

vars == <<pc, err, teachersLeft, rawEdges, Aggregated_Nodes, Aggregated_Edges,
          fileNodes, fileEdges, fileEmbeddings, Node_IDs, Edges, heap,
          Node_ID_2_Embedding, Node_ID_2_Embedding_Temp, Node_ID_2_Embedding_New,
          Losses, Iteration, edgePos>>

aggVars == <<teachersLeft, rawEdges, Aggregated_Nodes, Aggregated_Edges>>
fileVars == <<fileNodes, fileEdges>>
embVars == <<Node_IDs, Edges, heap, Node_ID_2_Embedding, Node_ID_2_Embedding_Temp,
             Node_ID_2_Embedding_New, Losses, Iteration, edgePos>>

NoFile == [written |-> FALSE, keys |-> <<>>, data |-> EmptyDict]

Range(s) == {s[i] : i \in 1..Len(s)}

(***************************************************************************)
(* Aggregator.py                                                           *)
(***************************************************************************)
\* Position of key k among the items of dict d, 0 when absent.
KeyIndex(d, k) ==
    IF \E i \in 1..Len(d) : d[i].key = k
    THEN CHOOSE i \in 1..Len(d) : d[i].key = k
    ELSE 0

\* Line 60 without the sort: the pair as the raw edge gives it.
RawPair(from, to) == <<from, to>>

\* Line 60: Node_1, Node_2 = sorted([from, to]).
SortedPair(from, to) == IF from <= to THEN <<from, to>> ELSE <<to, from>>

\* Lines 61-64: the dict after one raw edge.
WithEdge(d, from, to) ==
    LET n1 == SortedPair(from, to)[1]
        n2 == SortedPair(from, to)[2]
        d1 == IF KeyIndex(d, n1) = 0
              THEN Append(d, [key |-> n1, nbrs |-> <<>>])
              ELSE d
        i  == KeyIndex(d1, n1)
    IN  IF n2 \in Range(d1[i].nbrs)
        THEN d1
        ELSE [d1 EXCEPT ![i].nbrs = Append(@, n2)]

\* Lines 11-15, 50: the next teacher's files are loaded; the node and edge
\* loops run only when the network file holds at least one edge.
LoadTeacher ==
    /\ pc = "agg_teacher"
    /\ teachersLeft > 0
    /\ teachersLeft' = teachersLeft - 1
    /\ \E hasEdges \in BOOLEAN :
          /\ hasEdges => Len(rawEdges) < MaxRawEdges
          /\ pc' = IF hasEdges THEN "agg_nodes" ELSE "agg_teacher"
    /\ UNCHANGED <<err, rawEdges, Aggregated_Nodes, Aggregated_Edges>>
    /\ UNCHANGED <<fileVars, fileEmbeddings, embVars>>

\* Lines 51-57: one node record of the network file.
AddNode ==
    /\ pc = "agg_nodes"
    /\ \E Node_ID \in NodeIdSet :
          Aggregated_Nodes' = IF Node_ID \in Range(Aggregated_Nodes)
                              THEN Aggregated_Nodes
                              ELSE Append(Aggregated_Nodes, Node_ID)
    /\ UNCHANGED <<pc, err, teachersLeft, rawEdges, Aggregated_Edges>>
    /\ UNCHANGED <<fileVars, fileEmbeddings, embVars>>

\* Lines 59-64: one raw edge of the network file (the first one ends the
\* node loop).
AddEdge ==
    /\ pc \in {"agg_nodes", "agg_edges"}
    /\ Len(rawEdges) < MaxRawEdges
    /\ \E from \in NodeIdSet, to \in NodeIdSet :
          /\ Aggregated_Edges' = WithEdge(Aggregated_Edges, from, to)
          /\ rawEdges' = Append(rawEdges, <<from, to>>)
    /\ pc' = "agg_edges"
    /\ UNCHANGED <<err, teachersLeft, Aggregated_Nodes>>
    /\ UNCHANGED <<fileVars, fileEmbeddings, embVars>>

\* The edge loop of one teacher ends; back to line 11.
EndTeacher ==
    /\ pc = "agg_edges"
    /\ pc' = "agg_teacher"
    /\ UNCHANGED <<err, aggVars, fileVars, fileEmbeddings, embVars>>

\* Lines 66-68: Save_JSON of the nodes and edges; the process ends and only
\* the files remain.
SaveAggregated ==
    /\ pc = "agg_teacher"
    /\ teachersLeft = 0
    /\ fileNodes' = [i \in 1..Len(Aggregated_Nodes) |-> Str(Aggregated_Nodes[i])]
    /\ fileEdges' = [i \in 1..Len(Aggregated_Edges) |->
                        [key |-> Str(Aggregated_Edges[i].key),
                         nbrs |-> Aggregated_Edges[i].nbrs]]
    /\ rawEdges' = <<>>
    /\ Aggregated_Nodes' = <<>>
    /\ Aggregated_Edges' = <<>>
    /\ pc' = "emb_load"
    /\ UNCHANGED <<err, teachersLeft, fileEmbeddings, embVars>>


(***************************************************************************)
(* Embedding.py                                                            *)
(***************************************************************************)
\* Line 14 as it would be if the endpoints of the edges were added to the nodes.
NodeIDsWithEndpoints(nodes, edges) ==
    LET ids  == [i \in 1..Len(nodes) |-> ToInt(nodes[i])]
        more == {n \in NodeIdSet :
                    /\ n \notin Range(ids)
                    /\ \E i \in 1..Len(edges) :
                          ToInt(edges[i].key) = n \/ n \in Range(edges[i].nbrs)}
        RECURSIVE Listed(_)
        Listed(S) == IF S = {} THEN <<>>
                     ELSE LET m == CHOOSE x \in S : \A y \in S : x <= y
                          IN  <<m>> \o Listed(S \ {m})
    IN  ids \o Listed(more)

\* Line 14: Node_IDs = list(map(int, Nodes.keys())).
LoadNodeIDs(nodes, edges) == [i \in 1..Len(nodes) |-> ToInt(nodes[i])]

\* The pairs (Node_ID_A, Node_ID_B) in the order the loops of lines 27-29
\* visit them.
RECURSIVE EdgePairs(_)
EdgePairs(E) ==
    IF E = <<>> THEN <<>>
    ELSE [i \in 1..Len(Head(E).nbrs) |-> <<ToInt(Head(E).key), Head(E).nbrs[i]>>]
         \o EdgePairs(Tail(E))

\* A dict from the keys ks (in order) to len(ks) new arrays at the end of
\* heap h.
FreshDict(h, ks) == [k \in Range(ks) |->
                        Len(h) + (CHOOSE i \in 1..Len(ks) : ks[i] = k)]

\* Lines 9-14: the two JSON files are loaded.
Load ==
    /\ pc = "emb_load"
    /\ Node_IDs' = LoadNodeIDs(fileNodes, fileEdges)
    /\ Edges' = fileEdges
    /\ Node_ID_2_Embedding' = EmptyDict
    /\ pc' = "emb_init"
    /\ UNCHANGED <<err, aggVars, fileVars, fileEmbeddings, heap,
                   Node_ID_2_Embedding_Temp, Node_ID_2_Embedding_New,
                   Losses, Iteration, edgePos>>

\* Lines 16-19: one node gets its random vector.
InitEmbedding ==
    /\ pc = "emb_init"
    /\ Len(heap) < Len(Node_IDs)
    /\ \E Embedding \in Samples :
          heap' = Append(heap, InitNormalize(Embedding))
    /\ Node_ID_2_Embedding' =
          Node_ID_2_Embedding @@ (Node_IDs[Len(heap) + 1] :> Len(heap) + 1)
    /\ UNCHANGED <<pc, err, aggVars, fileVars, fileEmbeddings, Node_IDs, Edges,
                   Node_ID_2_Embedding_Temp, Node_ID_2_Embedding_New,
                   Losses, Iteration, edgePos>>

\* Lines 21-24: the accumulation buffers and the empty loss list.
InitTemp ==
    /\ pc = "emb_init"
    /\ Len(heap) = Len(Node_IDs)
    /\ Node_ID_2_Embedding_Temp' = FreshDict(heap, Node_IDs)
    /\ heap' = heap \o [i \in 1..Len(Node_IDs) |-> Zeros]
    /\ Losses' = <<>>
    /\ Iteration' = 0
    /\ pc' = "iter_head"
    /\ UNCHANGED <<err, aggVars, fileVars, fileEmbeddings, Node_IDs, Edges,
                   Node_ID_2_Embedding, Node_ID_2_Embedding_New, edgePos>>

\* Line 26 with an exit as soon as an iteration's loss is 0.
MoreIterationsUntilConverged ==
    /\ Iteration < ITERATION_COUNT
    /\ ~(Losses # <<>> /\ ~Losses[Len(Losses)].nan /\ Losses[Len(Losses)].x = 0)

\* Line 26: Iterations = arange(1, ITERATION_COUNT + 1) has a next element.
MoreIterations == Iteration < ITERATION_COUNT

\* Line 26: the for loop takes the next iteration or ends.
IterHead ==
    /\ pc = "iter_head"
    /\ IF MoreIterations
       THEN /\ Iteration' = Iteration + 1
            /\ edgePos' = 0
            /\ pc' = "accumulate"
       ELSE /\ pc' = "export"
            /\ UNCHANGED <<Iteration, edgePos>>
    /\ UNCHANGED <<err, aggVars, fileVars, fileEmbeddings, Node_IDs, Edges, heap,
                   Node_ID_2_Embedding, Node_ID_2_Embedding_Temp,
                   Node_ID_2_Embedding_New, Losses>>

\* Line 30/31 with the sum written into the current vector of the node.
AccTargetCurrent(n) == Node_ID_2_Embedding[n]

\* Line 30/31: the array that += changes in place.
AccTarget(n) == Node_ID_2_Embedding_Temp[n]

\* Lines 29-31: one pair of the edge loops.  A key that is missing from a
\* dict raises KeyError, which nothing catches.
Accumulate ==
    /\ pc = "accumulate"
    /\ edgePos < Len(EdgePairs(Edges))
    /\ LET Node_ID_A == EdgePairs(Edges)[edgePos + 1][1]
           Node_ID_B == EdgePairs(Edges)[edgePos + 1][2]
           ok30 == /\ Node_ID_A \in DOMAIN Node_ID_2_Embedding_Temp
                   /\ Node_ID_B \in DOMAIN Node_ID_2_Embedding
           ok31 == /\ Node_ID_B \in DOMAIN Node_ID_2_Embedding_Temp
                   /\ Node_ID_A \in DOMAIN Node_ID_2_Embedding
           h30 == [heap EXCEPT ![AccTarget(Node_ID_A)] =
                      VAdd(@, heap[Node_ID_2_Embedding[Node_ID_B]])]
           h31 == [h30 EXCEPT ![AccTarget(Node_ID_B)] =
                      VAdd(@, h30[Node_ID_2_Embedding[Node_ID_A]])]
       IN  IF ~ok30
           THEN /\ pc' = "error"
                /\ err' = "KeyError"
                /\ UNCHANGED <<heap, edgePos>>
           ELSE IF ~ok31
           THEN /\ pc' = "error"
                /\ err' = "KeyError"
                /\ heap' = h30
                /\ UNCHANGED edgePos
           ELSE /\ heap' = h31
                /\ edgePos' = edgePos + 1
                /\ UNCHANGED <<pc, err>>
    /\ UNCHANGED <<aggVars, fileVars, fileEmbeddings, Node_IDs, Edges,
                   Node_ID_2_Embedding, Node_ID_2_Embedding_Temp,
                   Node_ID_2_Embedding_New, Losses, Iteration>>

\* Line 32: the new vectors, one new array per buffer.
NormalizeAll ==
    /\ pc = "accumulate"
    /\ edgePos = Len(EdgePairs(Edges))
    /\ Node_ID_2_Embedding_New' = FreshDict(heap, Node_IDs)
    /\ heap' = heap \o [i \in 1..Len(Node_IDs) |->
                          Normalize(heap[Node_ID_2_Embedding_Temp[Node_IDs[i]]])]
    /\ pc' = "loss"
    /\ UNCHANGED <<err, aggVars, fileVars, fileEmbeddings, Node_IDs, Edges,
                   Node_ID_2_Embedding, Node_ID_2_Embedding_Temp,
                   Losses, Iteration, edgePos>>

\* Lines 33-39: the loss of the iteration is appended.
ComputeLoss ==
    /\ pc = "loss"
    /\ Losses' = Append(Losses,
          MeanOf([i \in 1..Len(Node_IDs) |->
                    MeanAbsDiff(heap[Node_ID_2_Embedding[Node_IDs[i]]],
                                heap[Node_ID_2_Embedding_New[Node_IDs[i]]])]))
    /\ pc' = "replace"
    /\ UNCHANGED <<err, aggVars, fileVars, fileEmbeddings, Node_IDs, Edges, heap,
                   Node_ID_2_Embedding, Node_ID_2_Embedding_Temp,
                   Node_ID_2_Embedding_New, Iteration, edgePos>>

\* Line 40: Node_ID_2_Embedding = co.deepcopy(Node_ID_2_Embedding_New).
Replace ==
    /\ pc = "replace"
    /\ Node_ID_2_Embedding' = FreshDict(heap, Node_IDs)
    /\ heap' = heap \o [i \in 1..Len(Node_IDs) |->
                          heap[Node_ID_2_Embedding_New[Node_IDs[i]]]]
    /\ pc' = "iter_head"
    /\ UNCHANGED <<err, aggVars, fileVars, fileEmbeddings, Node_IDs, Edges,
                   Node_ID_2_Embedding_Temp, Node_ID_2_Embedding_New,
                   Losses, Iteration, edgePos>>


\* Lines 44-47 restricted to the nodes that have an edge.
embeddings_of_connected ==
    [k \in {Str(n) : n \in {m \in DOMAIN Node_ID_2_Embedding :
                              \E i \in 1..Len(EdgePairs(Edges)) :
                                 m \in Range(EdgePairs(Edges)[i])}} |->
        heap[Node_ID_2_Embedding[ToInt(k)]]]

\* Lines 44-47: {int(node_id): embedding.tolist()}, as json.dump writes it.
embeddings_to_save ==
    [k \in {Str(n) : n \in DOMAIN Node_ID_2_Embedding} |->
        heap[Node_ID_2_Embedding[ToInt(k)]]]

\* Lines 43-52: Node_Embeddings.json is written.
Export ==
    /\ pc = "export"
    /\ fileEmbeddings' = [written |-> TRUE,
                          keys |-> [i \in 1..Len(Node_IDs) |-> Str(Node_IDs[i])],
                          data |-> embeddings_to_save]
    /\ pc' = "plot"
    /\ UNCHANGED <<err, aggVars, fileVars, embVars>>

\* Lines 54-59: the loss plot.
PlotLosses ==
    /\ pc = "plot"
    /\ pc' = "project"
    /\ UNCHANGED <<err, aggVars, fileVars, fileEmbeddings, embVars>>

\* Lines 61-70: the t-SNE projection of the library, which raises on input
\* it rejects (always on fewer than 2 points).
Project ==
    /\ pc = "project"
    /\ \E raised \in BOOLEAN :
          /\ Len(Node_IDs) < 2 => raised
          /\ pc' = IF raised THEN "error" ELSE "sparsify"
          /\ err' = IF raised THEN "ValueError" ELSE err
    /\ UNCHANGED <<aggVars, fileVars, fileEmbeddings, embVars>>

\* Lines 72-108: edge lengths, their 90th percentile, the 2D plot.  Whether
\* np.percentile of no lengths raises depends on the numpy version.
Sparsify ==
    /\ pc = "sparsify"
    /\ \E raised \in BOOLEAN :
          /\ raised => Edges = <<>>
          /\ pc' = IF raised THEN "error" ELSE "END"
          /\ err' = IF raised THEN "IndexError" ELSE err
    /\ UNCHANGED <<aggVars, fileVars, fileEmbeddings, embVars>>

(***************************************************************************)
(* The run of the two scripts.                                             *)
(***************************************************************************)
Init ==
    /\ pc = "agg_teacher"
    /\ err = "none"
    /\ teachersLeft \in 0..MaxTeachers
    /\ rawEdges = <<>>
    /\ Aggregated_Nodes = <<>>
    /\ Aggregated_Edges = <<>>
    /\ fileNodes = <<>>
    /\ fileEdges = <<>>
    /\ fileEmbeddings = NoFile
    /\ Node_IDs = <<>>
    /\ Edges = <<>>
    /\ heap = <<>>
    /\ Node_ID_2_Embedding = EmptyDict
    /\ Node_ID_2_Embedding_Temp = EmptyDict
    /\ Node_ID_2_Embedding_New = EmptyDict
    /\ Losses = <<>>
    /\ Iteration = 0
    /\ edgePos = 0

Next ==
    \/ LoadTeacher
    \/ AddNode
    \/ AddEdge
    \/ EndTeacher
    \/ SaveAggregated
    \/ Load
    \/ InitEmbedding
    \/ InitTemp
    \/ IterHead
    \/ Accumulate
    \/ NormalizeAll
    \/ ComputeLoss
    \/ Replace
    \/ Export
    \/ PlotLosses
    \/ Project
    \/ Sparsify

Spec == Init /\ [][Next]_vars

TypeOK ==
    /\ pc \in {"agg_teacher", "agg_nodes", "agg_edges", "emb_load", "emb_init",
               "iter_head", "accumulate", "loss", "replace", "export", "plot",
               "project", "sparsify", "END", "error"}
    /\ err \in {"none", "KeyError", "ValueError", "IndexError"}
    /\ Iteration \in 0..ITERATION_COUNT
    /\ Len(Losses) <= ITERATION_COUNT


(***************************************************************************)
(* Vocabulary of the properties.                                           *)
(***************************************************************************)
\* The loop body of lines 27-40 is being executed.
InBody == pc \in {"accumulate", "loss", "replace"}

\* The diffusion loop has been left by its normal exit.
LoopDone ==
    \/ pc \in {"export", "plot", "project", "sparsify", "END"}
    \/ pc = "error" /\ err \in {"ValueError", "IndexError"}

\* Number of iterations whose line 40 has been executed.
Completed ==
    IF InBody \/ (pc = "error" /\ err = "KeyError") THEN Iteration - 1
    ELSE Iteration

\* Every node has its vector and its buffer (lines 16-24 are done).
Initialized == pc = "iter_head" \/ InBody \/ LoopDone \/ (pc = "error" /\ err = "KeyError")

\* The current vector, the buffer and the initial vector of node n.
Vec(n) == heap[Node_ID_2_Embedding[n]]
Buf(n) == heap[Node_ID_2_Embedding_Temp[n]]
InitialVec(n) == heap[CHOOSE i \in 1..Len(Node_IDs) : Node_IDs[i] = n]

\* Nodes of the node set that occur in no edge, as key or as neighbour.
Isolated == {n \in Range(Node_IDs) :
                \A i \in 1..Len(EdgePairs(Edges)) : n \notin Range(EdgePairs(Edges)[i])}

\* L2 norm 1, up to the truncation of the fixed-point grid.
UnitNorm(v) == ~v.nan /\ Abs(Norm(v) - SCALE) <= EMBEDDING_SIZE

\* Every sample was non-zero and no edge joins a node to itself.
CleanInputs ==
    /\ Initialized
    /\ \A n \in Range(Node_IDs) : ~InitialVec(n).nan
    /\ \A i \in 1..Len(EdgePairs(Edges)) : EdgePairs(Edges)[i][1] # EdgePairs(Edges)[i][2]

\* Endpoints of the edges in the file that the node file does not list.
DanglingEndpoints ==
    {n \in NodeIdSet :
        /\ Str(n) \notin Range(fileNodes)
        /\ \E i \in 1..Len(EdgePairs(fileEdges)) : n \in Range(EdgePairs(fileEdges)[i])}

\* The addresses a dict holds.
Addrs(d) == {d[k] : k \in DOMAIN d}

(***************************************************************************)
(* C1.  At the start of every iteration of the diffusion loop the          *)
(* accumulation buffer of every node is the zero vector.                   *)
(* It is checked on the runs whose samples are all non-zero and whose graph *)
(* has no self-loop, so that a violation owes nothing to C8 or C10.        *)
(***************************************************************************)
C1_BufferZeroAtIterationStart ==
    (CleanInputs /\ pc = "accumulate" /\ edgePos = 0) =>
        \A n \in DOMAIN Node_ID_2_Embedding_Temp : Buf(n) = Zeros

(***************************************************************************)
(* C2.  A node of the node set that occurs in no edge has the zero vector  *)
(* after one iteration and after every later iteration, whatever its       *)
(* initial vector was.                                                     *)
(***************************************************************************)
C2_IsolatedNodeIsZero ==
    (Initialized /\ Completed >= 1) => \A n \in Isolated : Vec(n) = Zeros

\* Two iterations are done on a graph that has an edge and an isolated node
\* whose initial vector was a unit vector.
C2_Witness ==
    /\ Initialized
    /\ Completed >= 2
    /\ Edges # <<>>
    /\ \E n \in Isolated : UnitNorm(InitialVec(n)) /\ Vec(n) = Zeros

(***************************************************************************)
(* C3.  Inside an iteration the accumulation, the normalization and the    *)
(* loss computation leave the current vector set as it is; it changes only *)
(* at line 40, every node at once, to arrays that are shared neither with  *)
(* the buffers nor with the new set.                                       *)
(***************************************************************************)
C3_VectorsUnchanged ==
    /\ Node_ID_2_Embedding' = Node_ID_2_Embedding
    /\ \A n \in DOMAIN Node_ID_2_Embedding : heap'[Node_ID_2_Embedding[n]] = Vec(n)

C3_ReplacedAsAWhole ==
    /\ DOMAIN Node_ID_2_Embedding' = DOMAIN Node_ID_2_Embedding
    /\ \A n \in DOMAIN Node_ID_2_Embedding :
          /\ heap'[Node_ID_2_Embedding'[n]] = heap[Node_ID_2_Embedding_New[n]]
          /\ Node_ID_2_Embedding'[n] \notin
                Addrs(Node_ID_2_Embedding) \cup Addrs(Node_ID_2_Embedding_Temp)
                   \cup Addrs(Node_ID_2_Embedding_New)

C3_NoSharedArrays ==
    Initialized =>
        Addrs(Node_ID_2_Embedding) \cap
           (Addrs(Node_ID_2_Embedding_Temp) \cup Addrs(Node_ID_2_Embedding_New)) = {}

C3_VectorSetFrame ==
    /\ []C3_NoSharedArrays
    /\ [][/\ pc \in {"accumulate", "loss"} => C3_VectorsUnchanged
          /\ pc = "replace" => C3_ReplacedAsAWhole]_vars

\* The second iteration has added to a buffer and computed new vectors that
\* differ from the current ones, which still are those of the first iteration.
C3_Witness ==
    /\ pc = "replace"
    /\ Iteration = 2
    /\ \E n \in DOMAIN Node_ID_2_Embedding :
          /\ Buf(n) # Zeros
          /\ ~Buf(n).nan
          /\ heap[Node_ID_2_Embedding_New[n]] # Vec(n)

(***************************************************************************)
(* C4.  The loop is left only after ITERATION_COUNT iterations, also when  *)
(* an iteration's loss is 0; Losses only grows, by one entry per           *)
(* iteration, and ends with ITERATION_COUNT entries.                       *)
(***************************************************************************)
C4_OneLossPerIteration ==
    /\ pc = "iter_head" => Len(Losses) = Iteration
    /\ pc \in {"accumulate", "loss"} => Len(Losses) = Iteration - 1
    /\ pc = "replace" => Len(Losses) = Iteration
    /\ LoopDone => Len(Losses) = ITERATION_COUNT /\ Iteration = ITERATION_COUNT

C4_AppendOnly ==
    Initialized =>
        /\ Len(Losses') \in {Len(Losses), Len(Losses) + 1}
        /\ SubSeq(Losses', 1, Len(Losses)) = Losses

\* Statements of the loop still to be executed before it is left.
C4_StepsLeft ==
    LET rest == (ITERATION_COUNT - Iteration) * (Len(EdgePairs(Edges)) + 4) + 1
    IN  CASE pc = "iter_head"  -> rest
          [] pc = "accumulate" -> rest + (Len(EdgePairs(Edges)) - edgePos) + 3
          [] pc = "loss"       -> rest + 2
          [] pc = "replace"    -> rest + 1
          [] OTHER             -> 0

\* Each statement of the loop brings its end nearer (and the loop always has
\* a next statement: only lines 29-31 have a guard, the pairs left to visit).
C4_Progress ==
    (pc = "iter_head" \/ InBody) =>
        /\ C4_StepsLeft' < C4_StepsLeft
        /\ C4_StepsLeft' >= 0
        /\ pc' \in {"iter_head", "accumulate", "loss", "replace", "export", "error"}
        /\ pc' = "error" => DanglingEndpoints # {}

C4_FixedIterationCount ==
    /\ []C4_OneLossPerIteration
    /\ [](pc = "accumulate" => edgePos <= Len(EdgePairs(Edges)))
    /\ [][C4_AppendOnly /\ C4_Progress]_vars

\* The loop has ended although the loss of an earlier iteration was 0.
C4_Witness ==
    /\ pc = "export"
    /\ Len(Losses) = ITERATION_COUNT
    /\ \E i \in 1..(ITERATION_COUNT - 1) : ~Losses[i].nan /\ Losses[i].x = 0


(***************************************************************************)
(* C5, as stated.  After initialization and after every update every       *)
(* vector of the current vector set has L2 norm 1.  It is checked on the   *)
(* runs whose samples are all non-zero and whose graph has no self-loop,   *)
(* so that a violation owes nothing to C8 or C10.                          *)
(***************************************************************************)
C5_UnitNormAfterEveryUpdate ==
    CleanInputs =>
        \A n \in DOMAIN Node_ID_2_Embedding : UnitNorm(Vec(n))

(***************************************************************************)
(* C5, amended.  After initialization a vector has L2 norm 1 or, when its  *)
(* sample was the zero vector, is NaN.  After an update the vector of a    *)
(* node is its buffer b scaled by 1/(|b| + EPSILON): NaN exactly when the  *)
(* buffer is NaN, otherwise of norm less than 1, and the zero vector when  *)
(* the buffer is zero.                                                     *)
(***************************************************************************)
\* The buffers are those the last update normalized.
BuffersAsNormalized ==
    \/ pc = "iter_head"
    \/ pc = "accumulate" /\ edgePos = 0
    \/ LoopDone

C5_NormAfterInitAndUpdate ==
    /\ (Initialized /\ Completed = 0) =>
          \A n \in DOMAIN Node_ID_2_Embedding :
             /\ Vec(n) = InitialVec(n)
             /\ Vec(n).nan \/ UnitNorm(Vec(n))
    /\ (Initialized /\ Completed >= 1 /\ BuffersAsNormalized) =>
          \A n \in DOMAIN Node_ID_2_Embedding :
             /\ Vec(n).nan <=> Buf(n).nan
             /\ ~Vec(n).nan => Norm(Vec(n)) < SCALE
             /\ Buf(n) = Zeros => Vec(n) = Zeros
             /\ ~Buf(n).nan =>
                   /\ SCALE - Norm(Vec(n)) <=
                         Quot(SCALE * EPSILON, Norm(Buf(n)) + EPSILON) + EMBEDDING_SIZE + 1
                   /\ Norm(Vec(n)) * (Norm(Buf(n)) + EPSILON) <= SCALE * (Norm(Buf(n)) + 1)

\* After an update: a unit initial vector has become a vector of norm below 1
\* that is not zero, next to a node whose vector has become zero.
C5_Witness ==
    /\ pc = "iter_head"
    /\ Completed >= 1
    /\ \E n \in DOMAIN Node_ID_2_Embedding :
          /\ UnitNorm(InitialVec(n))
          /\ ~Vec(n).nan /\ Vec(n) # Zeros /\ Norm(Vec(n)) < SCALE
    /\ \E n \in DOMAIN Node_ID_2_Embedding :
          UnitNorm(InitialVec(n)) /\ Vec(n) = Zeros

(***************************************************************************)
(* C6.  When an edge of Aggregated_Edges.json has an endpoint that is not  *)
(* a key of Aggregated_Nodes.json, the engine gets no further than the     *)
(* accumulation of the first iteration, where it ends with KeyError: the   *)
(* endpoint never gets a vector or a buffer, no iteration is completed and *)
(* Node_Embeddings.json is never written.                                  *)
(***************************************************************************)
C6_FailFastOnDanglingEdge ==
    (pc \notin {"agg_teacher", "agg_nodes", "agg_edges"} /\ DanglingEndpoints # {}) =>
        /\ pc \in {"emb_load", "emb_init", "iter_head", "accumulate", "error"}
        /\ pc = "iter_head" => Iteration = 0
        /\ pc = "accumulate" => Iteration = 1
        /\ pc = "error" => err = "KeyError" /\ Iteration = 1
        /\ Losses = <<>>
        /\ ~fileEmbeddings.written
        /\ DanglingEndpoints \cap DOMAIN Node_ID_2_Embedding = {}
        /\ DanglingEndpoints \cap DOMAIN Node_ID_2_Embedding_Temp = {}

\* KeyError has ended the first iteration after an edge between listed nodes
\* had been accumulated.
C6_Witness ==
    /\ pc = "error"
    /\ err = "KeyError"
    /\ edgePos >= 1
    /\ DanglingEndpoints # {}
    /\ Node_IDs # <<>>

(***************************************************************************)
(* C7.  From the end of the export on, through the projection and whatever *)
(* it raises, Node_Embeddings.json holds one entry per node of the vector  *)
(* set, with the final vector of the node, and is not written again.       *)
(***************************************************************************)
C7_ExportComplete ==
    (pc \in {"plot", "project", "sparsify", "END"}
       \/ (pc = "error" /\ err \in {"ValueError", "IndexError"})) =>
        /\ fileEmbeddings.written
        /\ Len(fileEmbeddings.keys) = Len(Node_IDs)
        /\ DOMAIN fileEmbeddings.data = {Str(n) : n \in Range(Node_IDs)}
        /\ \A n \in Range(Node_IDs) : fileEmbeddings.data[Str(n)] = Vec(n)

C7_ExportBeforeProjection ==
    /\ []C7_ExportComplete
    /\ [][fileEmbeddings.written => fileEmbeddings' = fileEmbeddings]_vars

\* The projection has raised on a single node, whose vector is in the file.
C7_Witness ==
    /\ pc = "error"
    /\ err = "ValueError"
    /\ Len(Node_IDs) = 1
    /\ fileEmbeddings.written
    /\ DOMAIN fileEmbeddings.data = {Str(Node_IDs[1])}

(***************************************************************************)
(* C8.  Every node's initial vector is a well-defined vector of L2 norm 1, *)
(* for every sample.                                                       *)
(***************************************************************************)
C8_InitialVectorWellDefined ==
    (pc \in {"emb_init", "iter_head"} /\ Iteration = 0) =>
        \A n \in DOMAIN Node_ID_2_Embedding : UnitNorm(Vec(n))


(***************************************************************************)
(* C9.  Whatever raw edges the aggregator has read, every unordered pair   *)
(* of them is stored exactly once, in the neighbour list of its smaller    *)
(* id, and nothing else is stored; the file and the engine's Edges hold    *)
(* the same pairs, so the edge loops of an iteration meet every unordered  *)
(* pair once.                                                              *)
(***************************************************************************)
\* How often the pair <<a, b>> is stored in the dict d (a, b ints).
Stored(d, a, b) ==
    Cardinality({<<i, j>> \in (1..Len(d)) \X (1..MaxRawEdges + 1) :
                    /\ j <= Len(d[i].nbrs)
                    /\ d[i].key = a
                    /\ d[i].nbrs[j] = b})

Min(a, b) == IF a <= b THEN a ELSE b
Max(a, b) == IF a <= b THEN b ELSE a

C9_StoredOnce(d, raw) ==
    /\ \A i \in 1..Len(raw) :
          /\ Stored(d, Min(raw[i][1], raw[i][2]), Max(raw[i][1], raw[i][2])) = 1
          /\ raw[i][1] # raw[i][2] =>
                Stored(d, Max(raw[i][1], raw[i][2]), Min(raw[i][1], raw[i][2])) = 0
    /\ \A a \in NodeIdSet, b \in NodeIdSet :
          Stored(d, a, b) > 0 =>
             \E i \in 1..Len(raw) : {raw[i][1], raw[i][2]} = {a, b}

\* The pairs the edge loops visit: none is visited twice, in either order.
C9_VisitedOnce(E) ==
    \A i \in 1..Len(EdgePairs(E)), j \in 1..Len(EdgePairs(E)) :
       Range(EdgePairs(E)[i]) = Range(EdgePairs(E)[j]) => i = j

C9_AggregatorInvariant ==
    /\ pc \in {"agg_teacher", "agg_nodes", "agg_edges"} =>
          C9_StoredOnce(Aggregated_Edges, rawEdges)
    /\ C9_VisitedOnce(fileEdges)
    /\ C9_VisitedOnce(Edges)
    /\ pc = "accumulate" => edgePos <= Len(EdgePairs(Edges))

C9_SavedAsAggregated ==
    (pc = "agg_teacher" /\ pc' = "emb_load") =>
        C9_StoredOnce([i \in 1..Len(fileEdges') |->
                          [key |-> ToInt(fileEdges'[i].key), nbrs |-> fileEdges'[i].nbrs]],
                      rawEdges)

C9_EachPairOnce ==
    /\ []C9_AggregatorInvariant
    /\ [][C9_SavedAsAggregated]_vars
    /\ [][pc = "emb_load" => Edges' = fileEdges]_vars

\* The same pair was read in both directions and is stored once.
C9_Witness ==
    /\ pc = "agg_edges"
    /\ teachersLeft = 0
    /\ Len(rawEdges) = 2
    /\ rawEdges[1][1] # rawEdges[1][2]
    /\ rawEdges[2] = <<rawEdges[1][2], rawEdges[1][1]>>
    /\ Len(Aggregated_Edges) = 1
    /\ Len(Aggregated_Edges[1].nbrs) = 1

(***************************************************************************)
(* C10.  No node id is in its own neighbour list, in the dict of the       *)
(* aggregator, in the file or in the engine's Edges.                       *)
(***************************************************************************)
C10_NoSelfLoop ==
    /\ \A i \in 1..Len(Aggregated_Edges) :
          Aggregated_Edges[i].key \notin Range(Aggregated_Edges[i].nbrs)
    /\ \A i \in 1..Len(EdgePairs(fileEdges)) :
          EdgePairs(fileEdges)[i][1] # EdgePairs(fileEdges)[i][2]
    /\ \A i \in 1..Len(EdgePairs(Edges)) :
          EdgePairs(Edges)[i][1] # EdgePairs(Edges)[i][2]

====
